---------------------------- MODULE Spec2Model ----------------------------
(***************************************************************************)
(* Standings model of the Leaderboard class (src/src/models/Leaderboard.ts) *)
(*                                                                         *)
(* A team name is a sequence of UTF-16 code units (ASCII letters here), so *)
(* that toLowerCase and localeCompare are computed, not assumed.           *)
(* A standings table is a sequence of LeaderboardEntry records.            *)
(***************************************************************************)
EXTENDS Integers, Sequences, FiniteSets, TLC

VARIABLES
    standings,  \* Leaderboard.standings: the table, a sequence of entries
    last,       \* the last method call: its name, arguments and return value
    ops,        \* the number of mutating calls made on the table so far
    saved,      \* the standings column of the leaderboard's row in the database
    writers,    \* the instances two concurrent writers have loaded from that row
    rows,       \* the rows of the leaderboards table, in order of insertion
    built,      \* the Leaderboard instance last handed to validation
    match,      \* a Match instance: its status and its two scores
    completions,    \* how often that match has entered the status completed
    bracket,    \* a Bracket instance: status, currentRound, totalRounds, winner
    refreshTokens,  \* AuthService.refreshTokens: the set of stored tokens
    now,        \* the clock, in seconds: the iat of a token signed now
    active,     \* the ids of the users whose isActive is true
    calls,      \* the refreshToken calls in flight, one per caller
    issued,     \* every refresh token generateTokens has returned so far
    spent       \* the tokens used up by a rotation, a logout or a failed refresh

\* the state of the authentication service
auth == <<refreshTokens, now, active, calls, issued, spent>>

vars == <<standings, last, ops, saved, writers, rows, built,
          match, completions, bracket, auth>>

\* what lies beyond the leaderboards: the match, the bracket and the
\* authentication service
beyond == <<match, completions, bracket, auth>>

\* what the methods of one instance, save() apart, leave alone
elsewhere == <<writers, rows, built, beyond>>

---------------------------------------------------------------------------
(* Bounds of the model *)

\* operations performed on one table per behaviour
MaxOps == 2
\* goalsFor summed over the table: a match result is applied while the sum
\* stays within it
MaxGoals == 4
\* length of the tables sortStandings, getTopTeams and getTeamStanding are
\* applied to in SpecTable
MaxSortLen == 3
\* getTopTeams counts are drawn from -MaxCount..MaxCount
MaxCount == 3
\* rows of the leaderboards table in SpecRows
MaxRows == 2

---------------------------------------------------------------------------
(* Strings *)

\* "a", "A", "b", "Z", "ab" as code-unit sequences
Names == { <<97>>, <<65>>, <<98>>, <<90>>, <<97, 98>> }

IsUpper(c) == c \in 65..90

\* String.prototype.toLowerCase on ASCII letters
ToLowerCase(s) == [i \in 1..Len(s) |-> IF IsUpper(s[i]) THEN s[i] + 32 ELSE s[i]]

Sign(n) == IF n < 0 THEN -1 ELSE IF n > 0 THEN 1 ELSE 0

MinOf(S) == CHOOSE x \in S : \A y \in S : x <= y

\* lexicographic comparison of two code-unit sequences: -1, 0 or 1
LexCompare(u, v) ==
    LET n == IF Len(u) < Len(v) THEN Len(u) ELSE Len(v)
        D == {i \in 1..n : u[i] # v[i]}
    IN  IF D = {} THEN Sign(Len(u) - Len(v))
        ELSE LET i == MinOf(D) IN IF u[i] < v[i] THEN -1 ELSE 1

\* a faulty variant of LocaleCompare: plain code-unit order ("Z" < "a")
LocaleCompareCodeUnits(s, t) == LexCompare(s, t)

\* String.prototype.localeCompare in the default (root) collation, on ASCII
\* letters: letters compare ignoring case first; strings equal ignoring case
\* are ordered by the first case difference, lower case first.
LocaleCompare(s, t) ==
    LET p == LexCompare(ToLowerCase(s), ToLowerCase(t))
    IN  IF p # 0 THEN p ELSE -LexCompare(s, t)

---------------------------------------------------------------------------
(* LeaderboardEntry *)

Entry(n, p, w, d, l, gf, ga, gd, pts) ==
    [teamName |-> n, played |-> p, won |-> w, drawn |-> d, lost |-> l,
     goalsFor |-> gf, goalsAgainst |-> ga, goalDifference |-> gd, points |-> pts]

\* the fresh entry of createEntryFromMatch (existingEntry is null)
ZeroEntry(n) == Entry(n, 0, 0, 0, 0, 0, 0, 0, 0)

\* A nullable entry (LeaderboardEntry | null) is <<>> for null and <<e>> for e.

SameTeam(n, m) == ToLowerCase(n) = ToLowerCase(m)

---------------------------------------------------------------------------
(* Array helpers *)

Max2(a, b) == IF a > b THEN a ELSE b
Min2(a, b) == IF a < b THEN a ELSE b

\* Array.prototype.slice(start, end): negative indices count from the end
Slice(s, start, end) ==
    LET len == Len(s)
        k == IF start < 0 THEN Max2(len + start, 0) ELSE Min2(start, len)
        f == IF end < 0 THEN Max2(len + end, 0) ELSE Min2(end, len)
    IN  SubSeq(s, k + 1, f)

\* a faulty variant of FindIndex: names compared with === and no toLowerCase
FindIndexCaseSensitive(table, teamName) ==
    LET M == {i \in 1..Len(table) : table[i].teamName = teamName}
    IN  IF M = {} THEN -1 ELSE MinOf(M) - 1

\* Array.prototype.findIndex with the case-insensitive name predicate:
\* the 0-based index of the first match, -1 when none matches
FindIndex(table, teamName) ==
    LET M == {i \in 1..Len(table) : SameTeam(table[i].teamName, teamName)}
    IN  IF M = {} THEN -1 ELSE MinOf(M) - 1

---------------------------------------------------------------------------
(* Leaderboard methods *)

\* a faulty variant of GetTeamStanding: the names are compared as they are
GetTeamStandingCaseSensitive(table, teamName) ==
    LET i == FindIndexCaseSensitive(table, teamName)
    IN  IF i >= 0 THEN <<table[i + 1]>> ELSE <<>>

\* getTeamStanding: the first entry matching ignoring case, or null
GetTeamStanding(table, teamName) ==
    LET i == FindIndex(table, teamName)
    IN  IF i >= 0 THEN <<table[i + 1]>> ELSE <<>>

\* the comparator of sortStandings: negative when a ranks before b
CompareEntries(a, b) ==
    IF b.points # a.points THEN b.points - a.points
    ELSE IF b.goalDifference # a.goalDifference
         THEN b.goalDifference - a.goalDifference
    ELSE IF b.goalsFor # a.goalsFor THEN b.goalsFor - a.goalsFor
    ELSE LocaleCompare(a.teamName, b.teamName)

\* Array.prototype.sort is stable: an entry goes after every entry that
\* does not compare greater than it (binary insertion, as for short arrays)
RECURSIVE InsertEntry(_, _)
InsertEntry(sorted, e) ==
    IF sorted = <<>> THEN <<e>>
    ELSE LET n == Len(sorted)
         IN  IF CompareEntries(sorted[n], e) <= 0 THEN Append(sorted, e)
             ELSE Append(InsertEntry(SubSeq(sorted, 1, n - 1), e), sorted[n])

RECURSIVE StableSort(_)
StableSort(s) ==
    IF s = <<>> THEN <<>>
    ELSE InsertEntry(StableSort(SubSeq(s, 1, Len(s) - 1)), s[Len(s)])

\* a faulty variant of SortStandings: one exchange pass only
RECURSIVE OnePass(_)
OnePass(s) ==
    IF Len(s) < 2 THEN s
    ELSE IF CompareEntries(s[1], s[2]) > 0
         THEN <<s[2]>> \o OnePass(<<s[1]>> \o SubSeq(s, 3, Len(s)))
         ELSE <<s[1]>> \o OnePass(SubSeq(s, 2, Len(s)))

\* sortStandings
SortStandings(table) == StableSort(table)

\* a faulty variant of GetTopTeams: the table is sorted before it is sliced
GetTopTeamsSorted(table, count) == Slice(SortStandings(table), 0, count)

\* getTopTeams: this.standings.slice(0, count)
GetTopTeams(table, count) == Slice(table, 0, count)

\* a faulty variant of AddOrUpdateTeam: the trailing sortStandings() is missing
AddOrUpdateTeamNoSort(table, entry) ==
    LET existingIndex == FindIndex(table, entry.teamName)
    IN  IF existingIndex >= 0
        THEN [table EXCEPT ![existingIndex + 1] = entry]
        ELSE Append(table, entry)

\* a faulty variant of AddOrUpdateTeam: the entry is pushed without looking
\* for an entry of the same team
AddOrUpdateTeamAlwaysPush(table, entry) == SortStandings(Append(table, entry))

\* a faulty variant of AddOrUpdateTeam: an entry is added for a new team only,
\* the entry of a team that has one is kept
AddOrUpdateTeamKeepExisting(table, entry) ==
    LET existingIndex == FindIndex(table, entry.teamName)
    IN  IF existingIndex >= 0 THEN table ELSE SortStandings(Append(table, entry))

\* addOrUpdateTeam: replace the matching entry or push, then sort
AddOrUpdateTeam(table, entry) ==
    LET existingIndex == FindIndex(table, entry.teamName)
        upserted == IF existingIndex >= 0
                    THEN [table EXCEPT ![existingIndex + 1] = entry]
                    ELSE Append(table, entry)
    IN  SortStandings(upserted)

\* a faulty variant of RemoveTeam: splice(index) without the delete count
\* removes every entry from the match on
RemoveTeamSpliceToEnd(table, teamName) ==
    LET index == FindIndex(table, teamName)
    IN  IF index >= 0
        THEN [table |-> SubSeq(table, 1, index), removed |-> TRUE]
        ELSE [table |-> table, removed |-> FALSE]

\* removeTeam: splice the first matching entry out; no sort follows
RemoveTeam(table, teamName) ==
    LET index == FindIndex(table, teamName)
    IN  IF index >= 0
        THEN [table |-> SubSeq(table, 1, index) \o SubSeq(table, index + 2, Len(table)),
              removed |-> TRUE]
        ELSE [table |-> table, removed |-> FALSE]

\* a faulty variant of CreateEntryFromMatch: a win is worth 2 points
CreateEntryFromMatchWin2(teamName, existingEntry, isHome, homeScore, awayScore) ==
    LET baseEntry == IF existingEntry # <<>> THEN existingEntry[1] ELSE ZeroEntry(teamName)
        teamScore == IF isHome THEN homeScore ELSE awayScore
        opponentScore == IF isHome THEN awayScore ELSE homeScore
        gf == baseEntry.goalsFor + teamScore
        ga == baseEntry.goalsAgainst + opponentScore
        e1 == [baseEntry EXCEPT !.played = @ + 1, !.goalsFor = gf,
                                !.goalsAgainst = ga, !.goalDifference = gf - ga]
    IN  IF teamScore > opponentScore
        THEN [e1 EXCEPT !.won = @ + 1, !.points = @ + 2]
        ELSE IF teamScore = opponentScore
        THEN [e1 EXCEPT !.drawn = @ + 1, !.points = @ + 1]
        ELSE [e1 EXCEPT !.lost = @ + 1]

\* a faulty variant of CreateEntryFromMatch: a defeat is not counted
CreateEntryFromMatchNoLoss(teamName, existingEntry, isHome, homeScore, awayScore) ==
    LET baseEntry == IF existingEntry # <<>> THEN existingEntry[1] ELSE ZeroEntry(teamName)
        teamScore == IF isHome THEN homeScore ELSE awayScore
        opponentScore == IF isHome THEN awayScore ELSE homeScore
        gf == baseEntry.goalsFor + teamScore
        ga == baseEntry.goalsAgainst + opponentScore
        e1 == [baseEntry EXCEPT !.played = @ + 1, !.goalsFor = gf,
                                !.goalsAgainst = ga, !.goalDifference = gf - ga]
    IN  IF teamScore > opponentScore
        THEN [e1 EXCEPT !.won = @ + 1, !.points = @ + 3]
        ELSE IF teamScore = opponentScore
        THEN [e1 EXCEPT !.drawn = @ + 1, !.points = @ + 1]
        ELSE e1

\* a faulty variant of CreateEntryFromMatch: isHome is ignored, the team always
\* takes the home score
CreateEntryFromMatchAsHome(teamName, existingEntry, isHome, homeScore, awayScore) ==
    LET baseEntry == IF existingEntry # <<>> THEN existingEntry[1] ELSE ZeroEntry(teamName)
        teamScore == homeScore
        opponentScore == awayScore
        gf == baseEntry.goalsFor + teamScore
        ga == baseEntry.goalsAgainst + opponentScore
        e1 == [baseEntry EXCEPT !.played = @ + 1, !.goalsFor = gf,
                                !.goalsAgainst = ga, !.goalDifference = gf - ga]
    IN  IF teamScore > opponentScore
        THEN [e1 EXCEPT !.won = @ + 1, !.points = @ + 3]
        ELSE IF teamScore = opponentScore
        THEN [e1 EXCEPT !.drawn = @ + 1, !.points = @ + 1]
        ELSE [e1 EXCEPT !.lost = @ + 1]

\* a faulty variant of CreateEntryFromMatch: existingEntry is ignored, the
\* entry always starts from zero
CreateEntryFromMatchFresh(teamName, existingEntry, isHome, homeScore, awayScore) ==
    LET baseEntry == ZeroEntry(teamName)
        teamScore == IF isHome THEN homeScore ELSE awayScore
        opponentScore == IF isHome THEN awayScore ELSE homeScore
        gf == baseEntry.goalsFor + teamScore
        ga == baseEntry.goalsAgainst + opponentScore
        e1 == [baseEntry EXCEPT !.played = @ + 1, !.goalsFor = gf,
                                !.goalsAgainst = ga, !.goalDifference = gf - ga]
    IN  IF teamScore > opponentScore
        THEN [e1 EXCEPT !.won = @ + 1, !.points = @ + 3]
        ELSE IF teamScore = opponentScore
        THEN [e1 EXCEPT !.drawn = @ + 1, !.points = @ + 1]
        ELSE [e1 EXCEPT !.lost = @ + 1]

\* createEntryFromMatch: the existing entry (or a zeroed one under the given
\* name) with played, goals, goalDifference and the result counters updated.
\* The code updates existingEntry in place and returns that same object; the
\* value returned is what is modelled here.
CreateEntryFromMatch(teamName, existingEntry, isHome, homeScore, awayScore) ==
    LET baseEntry == IF existingEntry # <<>> THEN existingEntry[1] ELSE ZeroEntry(teamName)
        teamScore == IF isHome THEN homeScore ELSE awayScore
        opponentScore == IF isHome THEN awayScore ELSE homeScore
        gf == baseEntry.goalsFor + teamScore
        ga == baseEntry.goalsAgainst + opponentScore
        e1 == [baseEntry EXCEPT !.played = @ + 1, !.goalsFor = gf,
                                !.goalsAgainst = ga, !.goalDifference = gf - ga]
    IN  IF teamScore > opponentScore
        THEN [e1 EXCEPT !.won = @ + 1, !.points = @ + 3]
        ELSE IF teamScore = opponentScore
        THEN [e1 EXCEPT !.drawn = @ + 1, !.points = @ + 1]
        ELSE [e1 EXCEPT !.lost = @ + 1]

\* a faulty variant of IsStandingsValid: the check of points is missing
IsStandingsValidNoPoints(value) ==
    \A i \in 1..Len(value) :
        /\ value[i].teamName # <<>>
        /\ value[i].played >= 0
        /\ value[i].won >= 0
        /\ value[i].drawn >= 0
        /\ value[i].lost >= 0
        /\ value[i].goalsFor >= 0
        /\ value[i].goalsAgainst >= 0

\* the standings validator of the model definition: goalDifference is the
\* one field it does not look at
IsStandingsValid(value) ==
    \A i \in 1..Len(value) :
        /\ value[i].teamName # <<>>
        /\ value[i].played >= 0
        /\ value[i].won >= 0
        /\ value[i].drawn >= 0
        /\ value[i].lost >= 0
        /\ value[i].goalsFor >= 0
        /\ value[i].goalsAgainst >= 0
        /\ value[i].points >= 0

---------------------------------------------------------------------------
(* State *)

\* the names match results are reported under: "a", "A", "b", "Z"
TeamNames == { <<97>>, <<65>>, <<98>>, <<90>> }

\* the record of the operation that produced the current state; again tells
\* that a match result repeats the one reported by the call before it,
\* thrown that the call ended in an exception
NoOp == [op |-> "init", home |-> <<>>, away |-> <<>>, homeScore |-> 0,
         awayScore |-> 0, name |-> <<>>, entry |-> <<>>, count |-> 0,
         ret |-> <<>>, removed |-> FALSE, again |-> FALSE, thrown |-> FALSE,
         user |-> 0, error |-> ""]

RECURSIVE SumGoalsFor(_)
SumGoalsFor(table) ==
    IF table = <<>> THEN 0
    ELSE table[1].goalsFor + SumGoalsFor(SubSeq(table, 2, Len(table)))

\* nothing of the database beyond the leaderboard's own row is looked at
\* no token is stored and no refreshToken call is in flight
NoAuth ==
    /\ refreshTokens = {}
    /\ now = 0
    /\ active = {}
    /\ calls = <<>>
    /\ issued = {}
    /\ spent = {}

\* no match, no bracket and no token is looked at
NothingBeyond ==
    /\ match = <<>>
    /\ completions = 0
    /\ bracket = <<>>
    /\ NoAuth

NothingElsewhere ==
    /\ writers = <<>>
    /\ rows = <<>>
    /\ built = <<>>
    /\ NothingBeyond

\* applyMatchResult of the standings engine: for the home and the away team,
\* look the entry up, compute the updated entry, upsert it (which sorts)
ApplyMatchResult(table, homeTeam, awayTeam, homeScore, awayScore) ==
    LET homeEntry == CreateEntryFromMatch(homeTeam, GetTeamStanding(table, homeTeam),
                                          TRUE, homeScore, awayScore)
        awayEntry == CreateEntryFromMatch(awayTeam, GetTeamStanding(table, awayTeam),
                                          FALSE, homeScore, awayScore)
    IN  AddOrUpdateTeam(AddOrUpdateTeam(table, homeEntry), awayEntry)

\* a valid match result: two distinct teams, two non-negative scores
ApplyMatch(homeTeam, awayTeam, homeScore, awayScore) ==
    /\ ops < MaxOps
    /\ ~SameTeam(homeTeam, awayTeam)
    /\ SumGoalsFor(standings) + homeScore + awayScore <= MaxGoals
    /\ standings' = ApplyMatchResult(standings, homeTeam, awayTeam, homeScore, awayScore)
    /\ ops' = ops + 1
    /\ last' = [NoOp EXCEPT !.op = "applyMatchResult", !.home = homeTeam,
                            !.away = awayTeam, !.homeScore = homeScore,
                            !.awayScore = awayScore,
                            !.again = /\ last.op = "applyMatchResult"
                                      /\ last.home = homeTeam
                                      /\ last.away = awayTeam
                                      /\ last.homeScore = homeScore
                                      /\ last.awayScore = awayScore]
    /\ UNCHANGED <<saved, elsewhere>>

ApplyAnyMatch ==
    \E homeTeam \in TeamNames, awayTeam \in TeamNames,
       homeScore \in 0..MaxGoals, awayScore \in 0..MaxGoals :
        ApplyMatch(homeTeam, awayTeam, homeScore, awayScore)

---------------------------------------------------------------------------
(* SpecMatches: a table created empty and fed match results only *)

InitEmpty ==
    /\ standings = <<>>
    /\ last = NoOp
    /\ ops = 0
    /\ saved = standings
    /\ NothingElsewhere

NextMatches == ApplyAnyMatch

SpecMatches == InitEmpty /\ [][NextMatches]_vars

---------------------------------------------------------------------------
(* Spec: a table handed to the constructor, then any operations on it *)

\* entries of the seeded tables: a 2-0 winner, the loser, two teams that drew
\* 1-1 (one spelt in upper case), an entry whose stored goalDifference is
\* stale (0 for 1-0), and an entry with negative points
SeedWinner == Entry(<<97>>, 1, 1, 0, 0, 2, 0, 2, 3)
SeedLoser == Entry(<<90>>, 1, 0, 0, 1, 0, 2, -2, 0)
SeedDrawB == Entry(<<98>>, 1, 0, 1, 0, 1, 1, 0, 1)
SeedDrawA == Entry(<<65>>, 1, 0, 1, 0, 1, 1, 0, 1)
SeedStale == Entry(<<98>>, 1, 1, 0, 0, 1, 0, 0, 3)
SeedNegative == Entry(<<90>>, 1, 0, 0, 1, 0, 1, -1, -1)

SeedPool == {SeedWinner, SeedLoser, SeedDrawB, SeedDrawA, SeedStale}

\* the standings arrays callers pass to the constructor and to updateStandings
SeedTables ==
    { <<>>,
      <<SeedWinner, SeedLoser>>,
      <<SeedLoser, SeedWinner>>,
      <<SeedDrawB, SeedDrawA>>,
      <<SeedWinner, SeedStale>>,
      <<SeedWinner, SeedDrawA>>,
      <<SeedWinner, SeedDrawB, SeedLoser>>,
      <<SeedNegative>> }

\* Leaderboard.create: the standings attribute as given, accepted when the
\* validator passes and written to the row; nothing sorts it
Init ==
    /\ standings \in {t \in SeedTables : IsStandingsValid(t)}
    /\ last = NoOp
    /\ ops = 0
    /\ saved = standings
    /\ NothingElsewhere

AddOrUpdate(entry) ==
    /\ ops < MaxOps
    /\ standings' = AddOrUpdateTeam(standings, entry)
    /\ ops' = ops + 1
    /\ last' = [NoOp EXCEPT !.op = "addOrUpdateTeam", !.entry = <<entry>>]
    /\ UNCHANGED <<saved, elsewhere>>

Remove(teamName) ==
    /\ ops < MaxOps
    /\ LET r == RemoveTeam(standings, teamName)
       IN  /\ standings' = r.table
           /\ last' = [NoOp EXCEPT !.op = "removeTeam", !.name = teamName,
                                   !.removed = r.removed]
    /\ ops' = ops + 1
    /\ UNCHANGED <<saved, elsewhere>>

Sort ==
    /\ ops < MaxOps
    /\ standings' = SortStandings(standings)
    /\ ops' = ops + 1
    /\ last' = [NoOp EXCEPT !.op = "sortStandings"]
    /\ UNCHANGED <<saved, elsewhere>>

\* updateStandings: the array is assigned and sorted, then save() validates
\* the instance and writes the row; when the validator throws, nothing is
\* written and the instance keeps the array it was given
UpdateStandings(newStandings) ==
    /\ ops < MaxOps
    /\ standings' = SortStandings(newStandings)
    /\ IF IsStandingsValid(standings')
       THEN /\ saved' = standings'
            /\ last' = [NoOp EXCEPT !.op = "updateStandings"]
       ELSE /\ saved' = saved
            /\ last' = [NoOp EXCEPT !.op = "updateStandings", !.thrown = TRUE]
    /\ ops' = ops + 1
    /\ UNCHANGED elsewhere

Next ==
    \/ ApplyAnyMatch
    \/ \E entry \in SeedPool : AddOrUpdate(entry)
    \/ \E teamName \in TeamNames : Remove(teamName)
    \/ Sort
    \/ \E newStandings \in {t \in SeedTables : IsStandingsValid(t)} :
           UpdateStandings(newStandings)

Spec == Init /\ [][Next]_vars

---------------------------------------------------------------------------
(* SpecSave: what reaches the row when arrays of any content are saved *)

\* an entry whose teamName is the empty string
SeedNameless == Entry(<<>>, 1, 0, 1, 0, 1, 1, 0, 1)

\* the arrays updateStandings is called with: the seeded ones, the one with
\* negative points among them, and one with a nameless entry
SaveArgs == SeedTables \cup { <<SeedNameless, SeedWinner>> }

\* updateStandings(this.standings): the table as the instance holds it
SaveCurrent == UpdateStandings(standings)

\* refreshTimestamp: save() without an assignment to standings; the
\* validator runs on the instance, and whether the standings column is part
\* of the UPDATE depends on the ORM having noticed the changes made to the
\* array in place, so the row keeps its table or takes the instance's
RefreshTimestamp ==
    /\ ops < MaxOps
    /\ IF IsStandingsValid(standings)
       THEN /\ saved' \in {saved, standings}
            /\ last' = [NoOp EXCEPT !.op = "refreshTimestamp"]
       ELSE /\ saved' = saved
            /\ last' = [NoOp EXCEPT !.op = "refreshTimestamp", !.thrown = TRUE]
    /\ ops' = ops + 1
    /\ UNCHANGED <<standings, elsewhere>>

NextSave ==
    \/ \E newStandings \in SaveArgs : UpdateStandings(newStandings)
    \/ \E entry \in SeedPool \cup {SeedNegative} : AddOrUpdate(entry)
    \/ SaveCurrent
    \/ RefreshTimestamp

SpecSave == Init /\ [][NextSave]_vars

---------------------------------------------------------------------------
(* SpecWriters: two writers process one match result each for the same row *)

Writers == {1, 2}

\* the scores of the two match results
WriterScores == 0..1

NoMatch == [home |-> <<>>, away |-> <<>>, homeScore |-> 0, awayScore |-> 0]

\* a writer: where it is, the table of the instance it loaded, the match
\* result it applied, whether the row was saved by the other writer after
\* this one had loaded it, and the position of its save among the saves
IdleWriter == [pc |-> "idle", table |-> <<>>, match |-> NoMatch,
               stale |-> FALSE, turn |-> 0]

InitWriters ==
    /\ standings \in { <<>>, <<SeedWinner, SeedLoser>> }
    /\ last = NoOp
    /\ ops = 0
    /\ saved = standings
    /\ writers = [w \in Writers |-> IdleWriter]
    /\ rows = <<>>
    /\ built = <<>>
    /\ NothingBeyond

\* the writer reads the row into an instance of its own
Load(w) ==
    /\ writers[w].pc = "idle"
    /\ writers' = [writers EXCEPT ![w].pc = "loaded", ![w].table = saved]
    /\ UNCHANGED <<standings, last, ops, saved, rows, built, beyond>>

\* the writer applies its match result to its instance and calls
\* updateStandings with the table: the whole array is written to the row
Complete(w, homeTeam, awayTeam, homeScore, awayScore) ==
    /\ writers[w].pc = "loaded"
    /\ ~SameTeam(homeTeam, awayTeam)
    /\ LET table == SortStandings(ApplyMatchResult(writers[w].table, homeTeam, awayTeam,
                                                   homeScore, awayScore))
           turn == 1 + Cardinality({u \in Writers : writers[u].pc = "saved"})
       IN  /\ IsStandingsValid(table)
           /\ saved' = table
           /\ writers' = [u \in Writers |->
                  IF u = w
                  THEN [writers[u] EXCEPT !.pc = "saved", !.table = table, !.turn = turn,
                                          !.match = [home |-> homeTeam, away |-> awayTeam,
                                                     homeScore |-> homeScore,
                                                     awayScore |-> awayScore]]
                  ELSE IF writers[u].pc = "loaded"
                  THEN [writers[u] EXCEPT !.stale = TRUE]
                  ELSE writers[u]]
    /\ UNCHANGED <<standings, last, ops, rows, built, beyond>>

NextWriters ==
    \/ \E w \in Writers : Load(w)
    \/ \E w \in Writers, homeTeam \in TeamNames, awayTeam \in TeamNames,
          homeScore \in WriterScores, awayScore \in WriterScores :
           Complete(w, homeTeam, awayTeam, homeScore, awayScore)

SpecWriters == InitWriters /\ [][NextWriters]_vars

---------------------------------------------------------------------------
(* SpecRows: leaderboards are created for divisions, tournaments and cups *)

\* A nullable column (number | null | undefined, a nullable season string)
\* is <<>> when unset and <<v>> when it holds v.

\* the value is truthy: set and not 0
Truthy(x) == x # <<>> /\ x[1] # 0

\* the value is neither undefined nor null
IsSet(x) == x # <<>>

IsDivisionLeaderboard(lb) == ~Truthy(lb.tournamentId) /\ ~Truthy(lb.cupId)

IsTournamentLeaderboard(lb) == IsSet(lb.tournamentId)

IsCupLeaderboard(lb) == IsSet(lb.cupId)

\* the model validator eitherTournamentOrCup does not throw
EitherTournamentOrCup(lb) == ~(Truthy(lb.tournamentId) /\ Truthy(lb.cupId))

\* the ids of the divisions, and of the tournaments and cups, that exist:
\* auto-increment keys
DivisionIds == {1, 2}
CompetitionIds == {1}

\* the values a caller passes for tournamentId and cupId: unset, 0, an id
IdArgs == { <<>>, <<0>> } \cup { <<i>> : i \in CompetitionIds }

\* the values a caller passes for season
SeasonArgs == { <<>>, <<"2024/25">> }

\* the foreign keys of the row reference rows that exist
ForeignKeysHold(lb) ==
    /\ lb.divisionId \in DivisionIds
    /\ lb.tournamentId = <<>> \/ lb.tournamentId[1] \in CompetitionIds
    /\ lb.cupId = <<>> \/ lb.cupId[1] \in CompetitionIds

\* two column values count as equal in a unique index: NULL equals nothing
SqlEqual(x, y) == x # <<>> /\ y # <<>> /\ x = y

\* the three partial unique indexes: (division_id, tournament_id) over rows
\* with a tournament and no cup, (division_id, cup_id) over rows with a cup
\* and no tournament, (division_id, season) over rows with neither
ConflictsWith(r, lb) ==
    \/ /\ r.tournamentId # <<>> /\ r.cupId = <<>>
       /\ lb.tournamentId # <<>> /\ lb.cupId = <<>>
       /\ r.divisionId = lb.divisionId
       /\ SqlEqual(r.tournamentId, lb.tournamentId)
    \/ /\ r.cupId # <<>> /\ r.tournamentId = <<>>
       /\ lb.cupId # <<>> /\ lb.tournamentId = <<>>
       /\ r.divisionId = lb.divisionId
       /\ SqlEqual(r.cupId, lb.cupId)
    \/ /\ r.tournamentId = <<>> /\ r.cupId = <<>>
       /\ lb.tournamentId = <<>> /\ lb.cupId = <<>>
       /\ r.divisionId = lb.divisionId
       /\ SqlEqual(r.season, lb.season)

InitRows ==
    /\ standings = <<>>
    /\ last = NoOp
    /\ ops = 0
    /\ saved = <<>>
    /\ writers = <<>>
    /\ rows = <<>>
    /\ built = <<>>
    /\ NothingBeyond

\* Leaderboard.create: the instance is built and validated, then inserted;
\* the insert fails on a foreign key without a target and on a unique index
CreateLeaderboard(divisionId, season, tournamentId, cupId) ==
    /\ Len(rows) < MaxRows
    /\ LET lb == [divisionId |-> divisionId, season |-> season,
                  tournamentId |-> tournamentId, cupId |-> cupId]
           valid == EitherTournamentOrCup(lb)
           inserted == /\ valid
                       /\ ForeignKeysHold(lb)
                       /\ \A k \in 1..Len(rows) : ~ConflictsWith(rows[k], lb)
       IN  /\ built' = << [lb |-> lb, valid |-> valid, inserted |-> inserted] >>
           /\ rows' = IF inserted THEN Append(rows, lb) ELSE rows
    /\ UNCHANGED <<standings, last, ops, saved, writers, beyond>>

NextRows ==
    \E divisionId \in DivisionIds, season \in SeasonArgs,
       tournamentId \in IdArgs, cupId \in IdArgs :
        CreateLeaderboard(divisionId, season, tournamentId, cupId)

SpecRows == InitRows /\ [][NextRows]_vars

---------------------------------------------------------------------------
(* SpecTable: sortStandings and the two readers on every table of a pool *)

\* entries that tie on points, goalDifference and goalsFor under five names
\* ("a", "A", "b", "Z", "ab"), and entries that differ from them in goalsFor
\* only, in goalDifference, and in points
TablePool ==
    { Entry(n, 1, 1, 0, 0, 1, 0, 1, 3) : n \in Names }
    \cup { Entry(<<98>>, 1, 1, 0, 0, 2, 1, 1, 3),
           Entry(<<90>>, 1, 1, 0, 0, 2, 0, 2, 3),
           Entry(<<97>>, 1, 0, 1, 0, 1, 1, 0, 1) }

RECURSIVE SeqsUpTo(_, _)
SeqsUpTo(S, n) ==
    IF n = 0 THEN { <<>> }
    ELSE LET shorter == SeqsUpTo(S, n - 1)
         IN  shorter \cup { Append(t, e) : t \in {u \in shorter : Len(u) = n - 1}, e \in S }

InitTable ==
    /\ standings \in {t \in SeqsUpTo(TablePool, MaxSortLen) : IsStandingsValid(t)}
    /\ last = NoOp
    /\ ops = 0
    /\ saved = standings
    /\ NothingElsewhere

SortTable ==
    /\ standings' = SortStandings(standings)
    /\ last' = [NoOp EXCEPT !.op = "sortStandings"]
    /\ UNCHANGED <<ops, saved, elsewhere>>

\* getTopTeams reads the table and returns a new array
TopTeams(count) ==
    /\ last' = [NoOp EXCEPT !.op = "getTopTeams", !.count = count,
                            !.ret = GetTopTeams(standings, count)]
    /\ UNCHANGED <<standings, ops, saved, elsewhere>>

\* getTeamStanding reads the table and returns one of its entries or null
TeamStanding(teamName) ==
    /\ last' = [NoOp EXCEPT !.op = "getTeamStanding", !.name = teamName,
                            !.ret = GetTeamStanding(standings, teamName)]
    /\ UNCHANGED <<standings, ops, saved, elsewhere>>

NextTable ==
    \/ SortTable
    \/ \E count \in (-MaxCount)..MaxCount : TopTeams(count)
    \/ \E teamName \in Names : TeamStanding(teamName)

SpecTable == InitTable /\ [][NextTable]_vars

---------------------------------------------------------------------------
(* SpecSteps: the two steps of an update, createEntryFromMatch on the entry *)
(* getTeamStanding returns, then addOrUpdateTeam with the result            *)

\* the scores createEntryFromMatch is called with here: it takes any number
RawScores == (-1)..1

\* createEntryFromMatch(teamName, getTeamStanding(teamName), ...): find
\* returns the object stored in the array and createEntryFromMatch assigns
\* to its fields, so the array holds the updated entry when the call returns;
\* for a team without an entry a new object is returned and the array is as
\* it was
CreateEntryInPlace(table, teamName, isHome, homeScore, awayScore) ==
    LET index == FindIndex(table, teamName)
        entry == CreateEntryFromMatch(teamName, GetTeamStanding(table, teamName),
                                      isHome, homeScore, awayScore)
    IN  [table |-> IF index >= 0 THEN [table EXCEPT ![index + 1] = entry] ELSE table,
         entry |-> entry]

\* no statement of createEntryFromMatch checks its arguments or throws
CreateEntry(teamName, isHome, homeScore, awayScore) ==
    /\ ops < MaxOps
    /\ SumGoalsFor(standings) + homeScore + awayScore <= MaxGoals
    /\ LET r == CreateEntryInPlace(standings, teamName, isHome, homeScore, awayScore)
       IN  /\ standings' = r.table
           /\ last' = [NoOp EXCEPT !.op = "createEntryFromMatch", !.name = teamName,
                                   !.home = IF isHome THEN teamName ELSE <<>>,
                                   !.away = IF isHome THEN <<>> ELSE teamName,
                                   !.homeScore = homeScore, !.awayScore = awayScore,
                                   !.entry = <<r.entry>>]
    /\ ops' = ops + 1
    /\ UNCHANGED <<saved, elsewhere>>

\* addOrUpdateTeam with the entry createEntryFromMatch has just returned
UpsertCreated ==
    /\ last.op = "createEntryFromMatch"
    /\ AddOrUpdate(last.entry[1])

NextSteps ==
    \/ \E teamName \in TeamNames, isHome \in BOOLEAN,
          homeScore \in RawScores, awayScore \in RawScores :
           CreateEntry(teamName, isHome, homeScore, awayScore)
    \/ UpsertCreated

SpecSteps == Init /\ [][NextSteps]_vars

---------------------------------------------------------------------------
(* Vocabulary of the properties *)

Applied == last.op = "applyMatchResult"

\* no two entries of the table have names equal ignoring case
UniqueNames(table) ==
    \A i, j \in 1..Len(table) :
        i # j => ToLowerCase(table[i].teamName) # ToLowerCase(table[j].teamName)

\* the ranking rule, as the specification words it: points, then goal
\* difference, then goals for, all descending, then the name ascending
\* ignoring case
InRankingOrder(a, b) ==
    \/ a.points > b.points
    \/ /\ a.points = b.points
       /\ \/ a.goalDifference > b.goalDifference
          \/ /\ a.goalDifference = b.goalDifference
             /\ \/ a.goalsFor > b.goalsFor
                \/ /\ a.goalsFor = b.goalsFor
                   /\ LexCompare(ToLowerCase(a.teamName), ToLowerCase(b.teamName)) <= 0

IsRanked(table) ==
    \A i \in 1..(Len(table) - 1) : InRankingOrder(table[i], table[i + 1])

\* the entry of a team in a table, a zeroed one when it has none
StatOf(table, teamName) ==
    IF \E i \in 1..Len(table) : SameTeam(table[i].teamName, teamName)
    THEN table[CHOOSE i \in 1..Len(table) : SameTeam(table[i].teamName, teamName)]
    ELSE ZeroEntry(teamName)

\* how often an entry occurs in a table
Occurrences(table, e) == Cardinality({i \in 1..Len(table) : table[i] = e})

SameEntries(s, t) ==
    /\ Len(s) = Len(t)
    /\ \A i \in 1..Len(s) : Occurrences(s, s[i]) = Occurrences(t, s[i])

\* every reordering of a table
Reorderings(table) ==
    LET n == Len(table)
        P == {f \in [1..n -> 1..n] : \A i, j \in 1..n : i # j => f[i] # f[j]}
    IN  { [i \in 1..n |-> table[f[i]]] : f \in P }

---------------------------------------------------------------------------
(* Properties *)

\* C1: in a table built from empty by match results, every entry has
\* points = 3 * won + drawn
C1_PointsFromWinsAndDraws ==
    \A i \in 1..Len(standings) :
        standings[i].points = 3 * standings[i].won + standings[i].drawn

\* a team has played twice, one win and one draw
C1_Witness ==
    /\ Applied
    /\ \E i \in 1..Len(standings) : standings[i].won = 1 /\ standings[i].drawn = 1

\* C2: in a table built from empty by match results, every entry has
\* won + drawn + lost = played
C2_PlayedIsSumOfResults ==
    \A i \in 1..Len(standings) :
        standings[i].won + standings[i].drawn + standings[i].lost = standings[i].played

\* a team has played twice, one win and one defeat
C2_Witness ==
    /\ Applied
    /\ \E i \in 1..Len(standings) :
        standings[i].won = 1 /\ standings[i].lost = 1 /\ standings[i].played = 2

\* C3: after a match result is applied, goalDifference = goalsFor -
\* goalsAgainst for every entry of the table, whatever table it was applied to
C3_GoalDifferenceOfEveryEntry ==
    Applied =>
        \A i \in 1..Len(standings) :
            standings[i].goalDifference =
                standings[i].goalsFor - standings[i].goalsAgainst

\* C4: one applied match (h, a) gives both teams played + 1, each its own
\* score as goalsFor and the other's as goalsAgainst, the higher scorer
\* won + 1 and points + 3, the lower scorer lost + 1 and no points, and on
\* equal scores both drawn + 1 and points + 1; 3-1 and 2-2 from empty give
\* the entries of the examples
C4_TeamDelta(before, after, own, other) ==
    /\ after.teamName = before.teamName
    /\ after.played = before.played + 1
    /\ after.goalsFor = before.goalsFor + own
    /\ after.goalsAgainst = before.goalsAgainst + other
    /\ after.won = before.won + (IF own > other THEN 1 ELSE 0)
    /\ after.drawn = before.drawn + (IF own = other THEN 1 ELSE 0)
    /\ after.lost = before.lost + (IF own < other THEN 1 ELSE 0)
    /\ after.points = before.points + (IF own > other THEN 3 ELSE IF own = other THEN 1 ELSE 0)

C4_MatchStep ==
    LET h == last'.homeScore
        a == last'.awayScore
        home == last'.home
        away == last'.away
    IN  /\ C4_TeamDelta(StatOf(standings, home), StatOf(standings', home), h, a)
        /\ C4_TeamDelta(StatOf(standings, away), StatOf(standings', away), a, h)
        /\ (standings = <<>> /\ h = 3 /\ a = 1) =>
               standings' = << Entry(home, 1, 1, 0, 0, 3, 1, 2, 3),
                               Entry(away, 1, 0, 0, 1, 1, 3, -2, 0) >>
        /\ (standings = <<>> /\ h = 2 /\ a = 2) =>
               \A i \in 1..Len(standings') :
                   /\ standings'[i].played = 1
                   /\ standings'[i].drawn = 1
                   /\ standings'[i].points = 1
                   /\ standings'[i].goalDifference = 0

C4_MatchResultCounts == [][last'.op = "applyMatchResult" => C4_MatchStep]_vars

\* a 3-1 home win applied to the empty table
C4_Witness ==
    /\ Applied
    /\ ops = 1
    /\ last.homeScore = 3
    /\ last.awayScore = 1
    /\ Len(standings) = 2
    /\ standings[1].teamName = last.home
    /\ standings[1].points = 3

C5_RankedStep ==
    /\ last'.op \in {"addOrUpdateTeam", "updateStandings", "applyMatchResult"}
           => IsRanked(standings')
    /\ (last'.op = "removeTeam" /\ IsRanked(standings)) => IsRanked(standings')

C6_SortStep ==
    LET n == Len(standings)
    IN  /\ \A i, j \in 1..n :
            i # j =>
                LET a == standings[i]
                    b == standings[j]
                IN  /\ CompareEntries(a, b) # 0
                    /\ Sign(CompareEntries(a, b)) = -Sign(CompareEntries(b, a))
                    /\ (a.points = b.points /\ a.goalDifference = b.goalDifference
                            /\ a.goalsFor = b.goalsFor)
                       => (CompareEntries(a, b) < 0
                            <=> LexCompare(ToLowerCase(a.teamName),
                                           ToLowerCase(b.teamName)) < 0)
        /\ \A q \in Reorderings(standings) : SortStandings(q) = standings'

C6_ComparatorIsTotalOrder ==
    [][(last'.op = "sortStandings" /\ UniqueNames(standings)) => C6_SortStep]_vars

\* three entries that tie on every statistic, sorted to "A", "ab", "Z"
C6_Witness ==
    /\ last.op = "sortStandings"
    /\ Len(standings) = 3
    /\ standings[1].teamName = <<65>>
    /\ standings[2].teamName = <<97, 98>>
    /\ standings[3].teamName = <<90>>
    /\ standings[1].goalsFor = standings[3].goalsFor
    /\ standings[1].goalDifference = standings[3].goalDifference

\* C7: sortStandings keeps the entries (same entries, each as often as
\* before) and sorting its result again changes nothing
C7_SortStep ==
    /\ SameEntries(standings, standings')
    /\ SortStandings(standings') = standings'

C7_SortIsIdempotentPermutation == [][last'.op = "sortStandings" => C7_SortStep]_vars

\* a sorted table of three entries with three different ranks
C7_Witness ==
    /\ last.op = "sortStandings"
    /\ Len(standings) = 3
    /\ standings[1].goalDifference > standings[2].goalDifference
    /\ standings[2].points > standings[3].points

\* C8: addOrUpdateTeam, removeTeam and an applied match result keep the names
\* of a table unique ignoring case; an upsert replaces the entry whose name
\* matches ignoring case, and appends exactly one entry when none matches
C8_UpsertStep ==
    LET e == last'.entry[1]
        had == \E i \in 1..Len(standings) : SameTeam(standings[i].teamName, e.teamName)
    IN  /\ Len(standings') = Len(standings) + (IF had THEN 0 ELSE 1)
        /\ Occurrences(standings', e) = 1
        /\ \A i \in 1..Len(standings') :
               SameTeam(standings'[i].teamName, e.teamName) => standings'[i] = e

C8_UniqueStep ==
    (last'.op \in {"applyMatchResult", "addOrUpdateTeam", "removeTeam"}
        /\ UniqueNames(standings))
    => /\ UniqueNames(standings')
       /\ last'.op = "addOrUpdateTeam" => C8_UpsertStep

C8_NamesStayUnique == [][C8_UniqueStep]_vars

\* the entry "A" has replaced the entry "a" of a seeded table
C8_Witness ==
    /\ last.op = "addOrUpdateTeam"
    /\ ops = 1
    /\ last.entry = <<SeedDrawA>>
    /\ standings = <<SeedDrawA, SeedLoser>>

\* C9: getTopTeams returns an empty sequence when the count is zero or
\* negative or the table is empty
C9_TopOfNothingIsEmpty ==
    (last.op = "getTopTeams" /\ (last.count <= 0 \/ standings = <<>>))
        => last.ret = <<>>

\* C10: for a count n > 0 getTopTeams returns the first min(n, length)
\* entries in their stored order and leaves the table as it was
C10_TopStep ==
    LET n == last'.count
        k == IF n < Len(standings) THEN n ELSE Len(standings)
    IN  /\ Len(last'.ret) = k
        /\ \A i \in 1..k : last'.ret[i] = standings[i]
        /\ standings' = standings

C10_TopIsPrefix == [][(last'.op = "getTopTeams" /\ last'.count > 0) => C10_TopStep]_vars

\* the first two of three entries that are not in ranking order
C10_Witness ==
    /\ last.op = "getTopTeams"
    /\ last.count = 2
    /\ Len(standings) = 3
    /\ ~IsRanked(standings)
    /\ last.ret = <<standings[1], standings[2]>>

\* the table without its k-th entry
Without(table, k) == SubSeq(table, 1, k - 1) \o SubSeq(table, k + 1, Len(table))

\* C11: removeTeam returns true exactly when an entry matching the name
\* ignoring case was present; then exactly one such entry is gone and the
\* other entries keep their values and their relative order; with no match
\* the table is unchanged
C11_RemoveStep ==
    LET name == last'.name
        M == {k \in 1..Len(standings) : SameTeam(standings[k].teamName, name)}
    IN  /\ last'.removed <=> M # {}
        /\ M # {} => \E k \in M : standings' = Without(standings, k)
        /\ M = {} => standings' = standings

C11_RemoveTakesOneEntryOut == [][last'.op = "removeTeam" => C11_RemoveStep]_vars

\* removeTeam("A") has taken the entry "a" out of the head of a seeded table
\* of three
C11_Witness ==
    /\ last.op = "removeTeam"
    /\ last.removed
    /\ last.name = <<65>>
    /\ ops = 1
    /\ standings = <<SeedDrawB, SeedLoser>>

\* C12: getTeamStanding returns an entry of the table whose name equals the
\* query ignoring case when there is one (the first of them), null when there
\* is none, and leaves the table as it was
C12_LookupStep ==
    LET name == last'.name
        M == {k \in 1..Len(standings) : SameTeam(standings[k].teamName, name)}
    IN  /\ M # {} => /\ last'.ret = <<standings[MinOf(M)]>>
                     /\ ToLowerCase(last'.ret[1].teamName) = ToLowerCase(name)
        /\ M = {} => last'.ret = <<>>
        /\ standings' = standings

C12_LookupIgnoresCase == [][last'.op = "getTeamStanding" => C12_LookupStep]_vars

\* getTeamStanding("A") has returned the entry stored under "a", the second
\* entry of the table
C12_Witness ==
    /\ last.op = "getTeamStanding"
    /\ last.name = <<65>>
    /\ Len(standings) >= 2
    /\ standings[2].teamName = <<97>>
    /\ last.ret = <<standings[2]>>

\* the table has an entry under the name, ignoring case
HasEntry(table, teamName) ==
    \E k \in 1..Len(table) : SameTeam(table[k].teamName, teamName)

\* C13: one applied match changes the entries of its home and away team
\* only: every entry of another team is in the table as often as before with
\* the same field values, and the table grows by one entry for each of the two
\* teams that had none
C13_FrameStep ==
    LET home == last'.home
        away == last'.away
        Bystander(e) == ~SameTeam(e.teamName, home) /\ ~SameTeam(e.teamName, away)
    IN  /\ \A k \in 1..Len(standings) :
               Bystander(standings[k]) =>
                   Occurrences(standings', standings[k]) = Occurrences(standings, standings[k])
        /\ \A k \in 1..Len(standings') :
               Bystander(standings'[k]) =>
                   Occurrences(standings, standings'[k]) = Occurrences(standings', standings'[k])
        /\ Len(standings') = Len(standings)
                             + (IF HasEntry(standings, home) THEN 0 ELSE 1)
                             + (IF HasEntry(standings, away) THEN 0 ELSE 1)

C13_OnlyParticipantsChange == [][last'.op = "applyMatchResult" => C13_FrameStep]_vars

\* "b" against "A" applied to a seeded table of two: "b" is new, the entry of
\* "a" is updated, the entry of "Z" is the seeded one
C13_Witness ==
    /\ Applied
    /\ ops = 1
    /\ last.home = <<98>>
    /\ last.away = <<65>>
    /\ Len(standings) = 3
    /\ \E k \in 1..3 : standings[k] = SeedLoser
    /\ StatOf(standings, <<97>>).played = 2
    /\ StatOf(standings, <<98>>).played = 1

\* the result counters and points one result (own, other) adds, n times over
C14_Times(e, n, own, other) ==
    /\ e.played = n
    /\ e.goalsFor = n * own
    /\ e.goalsAgainst = n * other
    /\ e.goalDifference = n * (own - other)
    /\ e.won = (IF own > other THEN n ELSE 0)
    /\ e.drawn = (IF own = other THEN n ELSE 0)
    /\ e.lost = (IF own < other THEN n ELSE 0)
    /\ e.points = (IF own > other THEN 3 * n ELSE IF own = other THEN n ELSE 0)

\* C14: a match result reported again is counted again: the repeated
\* application changes the table and adds the increments of the result once
\* more, so a result applied twice to the empty table leaves both teams with
\* played 2 and twice the goals, result counters and points
C14_RepeatStep ==
    LET h == last'.homeScore
        a == last'.awayScore
        home == last'.home
        away == last'.away
    IN  /\ standings' # standings
        /\ C4_TeamDelta(StatOf(standings, home), StatOf(standings', home), h, a)
        /\ C4_TeamDelta(StatOf(standings, away), StatOf(standings', away), a, h)
        /\ ops = 1 => /\ Len(standings') = 2
                      /\ C14_Times(StatOf(standings', home), 2, h, a)
                      /\ C14_Times(StatOf(standings', away), 2, a, h)

C14_RepeatedResultCountsTwice ==
    [][(last'.op = "applyMatchResult" /\ last'.again) => C14_RepeatStep]_vars

\* the same 2-0 has been applied twice to the empty table
C14_Witness ==
    /\ Applied
    /\ last.again
    /\ ops = 2
    /\ last.homeScore = 2
    /\ last.awayScore = 0
    /\ StatOf(standings, last.home).points = 6
    /\ StatOf(standings, last.away).lost = 2

\* C15: a match result with a negative score is rejected with a validation
\* failure and the table is left unchanged
C15_NegativeScoreRejected ==
    [][(last'.op = "createEntryFromMatch"
            /\ (last'.homeScore < 0 \/ last'.awayScore < 0))
        => (last'.thrown /\ standings' = standings)]_vars

\* C17: createEntryFromMatch for a team that has an entry leaves the table as
\* it was; the entry stored in the table changes only when addOrUpdateTeam
\* is called with the result
C17_CreateLeavesTableAlone ==
    [][last'.op = "createEntryFromMatch" => standings' = standings]_vars

\* an entry with a name and no negative counter
C16_Storable(e) ==
    /\ Len(e.teamName) > 0
    /\ \A c \in {e.played, e.won, e.drawn, e.lost, e.goalsFor, e.goalsAgainst, e.points} :
           c >= 0

C18_Gain(m, teamName) ==
    LET own == IF SameTeam(teamName, m.home) THEN m.homeScore ELSE m.awayScore
        other == IF SameTeam(teamName, m.home) THEN m.awayScore ELSE m.homeScore
    IN  IF SameTeam(teamName, m.home) \/ SameTeam(teamName, m.away)
        THEN [played |-> 1, goalsFor |-> own, goalsAgainst |-> other,
              points |-> IF own > other THEN 3 ELSE IF own = other THEN 1 ELSE 0]
        ELSE [played |-> 0, goalsFor |-> 0, goalsAgainst |-> 0, points |-> 0]

C18_Reflects(before, after, g1, g2) ==
    /\ after.played = before.played + g1.played + g2.played
    /\ after.goalsFor = before.goalsFor + g1.goalsFor + g2.goalsFor
    /\ after.goalsAgainst = before.goalsAgainst + g1.goalsAgainst + g2.goalsAgainst
    /\ after.points = before.points + g1.points + g2.points

\* C18: when both writers have saved, the row reflects the match of the
\* writer that saved last and, of the other writer's match, everything when
\* the last writer loaded the row after the other had saved, and nothing
\* (a lost update) when it had loaded the row before
C18_LostUpdateUnlessSerialized ==
    (\A w \in Writers : writers # <<>> /\ writers[w].pc = "saved") =>
        \A f \in Writers, l \in Writers :
            (writers[f].turn = 1 /\ writers[l].turn = 2) =>
                \A teamName \in TeamNames :
                    C18_Reflects(StatOf(standings, teamName), StatOf(saved, teamName),
                                 C18_Gain(writers[l].match, teamName),
                                 IF writers[l].stale
                                 THEN C18_Gain(NoMatch, teamName)
                                 ELSE C18_Gain(writers[f].match, teamName))

\* both writers loaded the empty table; the first saved "b" against "Z", the
\* second saved "a" against "Z" 1-0: the row holds "a" and "Z" with one match
\* played each and no entry of "b"
C18_Witness ==
    /\ writers # <<>>
    /\ \A w \in Writers : writers[w].pc = "saved"
    /\ standings = <<>>
    /\ \E f \in Writers, l \in Writers :
           /\ writers[f].turn = 1
           /\ writers[l].turn = 2
           /\ writers[l].stale
           /\ writers[f].match.home = <<98>>
           /\ writers[f].match.away = <<90>>
           /\ writers[l].match.home = <<97>>
           /\ writers[l].match.away = <<90>>
           /\ writers[l].match.homeScore = 1
           /\ writers[l].match.awayScore = 0
    /\ Len(saved) = 2
    /\ ~HasEntry(saved, <<98>>)
    /\ StatOf(saved, <<90>>).played = 1

\* how many of the three scope getters are true of a leaderboard
C19_ScopesOf(lb) ==
    (IF IsDivisionLeaderboard(lb) THEN 1 ELSE 0)
    + (IF IsTournamentLeaderboard(lb) THEN 1 ELSE 0)
    + (IF IsCupLeaderboard(lb) THEN 1 ELSE 0)

\* C19: a leaderboard that passes validation does not have both tournamentId
\* and cupId set, and exactly one of isDivisionLeaderboard,
\* isTournamentLeaderboard and isCupLeaderboard is true of it
C19_ExactlyOneScope ==
    (built # <<>> /\ built[1].valid) =>
        /\ ~(IsSet(built[1].lb.tournamentId) /\ IsSet(built[1].lb.cupId))
        /\ C19_ScopesOf(built[1].lb) = 1

\* C20: after any sequence of creations no two rows have the same division
\* and tournament, no two the same division and cup, and no two rows with
\* neither a tournament nor a cup have the same division and the same season,
\* an unset season counting as a season
C20_AtMostOneTablePerScope ==
    \A i, j \in 1..Len(rows) :
        (i # j /\ rows[i].divisionId = rows[j].divisionId) =>
            /\ ~(rows[i].tournamentId # <<>> /\ rows[i].tournamentId = rows[j].tournamentId)
            /\ ~(rows[i].cupId # <<>> /\ rows[i].cupId = rows[j].cupId)
            /\ ~(/\ rows[i].tournamentId = <<>> /\ rows[i].cupId = <<>>
                 /\ rows[j].tournamentId = <<>> /\ rows[j].cupId = <<>>
                 /\ rows[i].season = rows[j].season)

----------------------------------------------------------------------------
(* The Match model: status and score of one match *)

\* the number of times the match may be completed in a run
MaxCompletions == 2

\* the scores a caller passes: a negative one, zero and a positive one
MatchScores == (-1)..1

\* Match.init: a created match is scheduled and has no scores
NewMatch == [status |-> "scheduled", homeScore |-> <<>>, awayScore |-> <<>>]

\* a faulty variant of completeMatch that does not look at the scores
completeMatchAnyScore(m, homeScore, awayScore) ==
    IF m.status # "in_progress"
    THEN [match |-> m, thrown |-> TRUE]
    ELSE [match |-> [m EXCEPT !.homeScore = <<homeScore>>,
                              !.awayScore = <<awayScore>>,
                              !.status = "completed"],
          thrown |-> FALSE]

\* Match.startMatch
startMatch(m) ==
    IF m.status # "scheduled"
    THEN [match |-> m, thrown |-> TRUE]
    ELSE [match |-> [m EXCEPT !.status = "in_progress"], thrown |-> FALSE]

\* Match.completeMatch
completeMatch(m, homeScore, awayScore) ==
    IF m.status # "in_progress"
    THEN [match |-> m, thrown |-> TRUE]
    ELSE IF homeScore < 0 \/ awayScore < 0
    THEN [match |-> m, thrown |-> TRUE]
    ELSE [match |-> [m EXCEPT !.homeScore = <<homeScore>>,
                              !.awayScore = <<awayScore>>,
                              !.status = "completed"],
          thrown |-> FALSE]

\* Match.cancel: no condition on the status
cancel(m) == [match |-> [m EXCEPT !.status = "cancelled"], thrown |-> FALSE]

\* Match.postpone: only the new date is looked at, inFuture is newDate > now
postpone(m, inFuture) ==
    IF ~inFuture
    THEN [match |-> m, thrown |-> TRUE]
    ELSE [match |-> [m EXCEPT !.status = "postponed"], thrown |-> FALSE]

\* Match.reschedule: a postponed match becomes scheduled again
reschedule(m, inFuture) ==
    IF ~inFuture
    THEN [match |-> m, thrown |-> TRUE]
    ELSE [match |-> [m EXCEPT !.status =
                        IF m.status = "postponed" THEN "scheduled" ELSE @],
          thrown |-> FALSE]

\* Match.updateScore
updateScore(m, homeScore, awayScore) ==
    IF m.status # "completed"
    THEN [match |-> m, thrown |-> TRUE]
    ELSE IF homeScore < 0 \/ awayScore < 0
    THEN [match |-> m, thrown |-> TRUE]
    ELSE [match |-> [m EXCEPT !.homeScore = <<homeScore>>,
                              !.awayScore = <<awayScore>>],
          thrown |-> FALSE]

\* what the methods of a match leave alone
offPitch == <<standings, ops, saved, writers, rows, built, bracket, auth>>

\* one call of a method of the match: r is what the method made of it
MatchCall(op, r, homeScore, awayScore) ==
    /\ match' = r.match
    /\ last' = [NoOp EXCEPT !.op = op, !.homeScore = homeScore,
                            !.awayScore = awayScore, !.thrown = r.thrown]

StartMatch ==
    /\ MatchCall("startMatch", startMatch(match), 0, 0)
    /\ UNCHANGED <<completions, offPitch>>

CompleteMatch(homeScore, awayScore) ==
    /\ completions < MaxCompletions
    /\ MatchCall("completeMatch", completeMatch(match, homeScore, awayScore),
                 homeScore, awayScore)
    /\ completions' = IF last'.thrown THEN completions ELSE completions + 1
    /\ UNCHANGED offPitch

Cancel ==
    /\ MatchCall("cancel", cancel(match), 0, 0)
    /\ UNCHANGED <<completions, offPitch>>

Postpone(inFuture) ==
    /\ MatchCall("postpone", postpone(match, inFuture), 0, 0)
    /\ UNCHANGED <<completions, offPitch>>

Reschedule(inFuture) ==
    /\ MatchCall("reschedule", reschedule(match, inFuture), 0, 0)
    /\ UNCHANGED <<completions, offPitch>>

UpdateScore(homeScore, awayScore) ==
    /\ MatchCall("updateScore", updateScore(match, homeScore, awayScore),
                 homeScore, awayScore)
    /\ UNCHANGED <<completions, offPitch>>

InitMatch ==
    /\ standings = <<>>
    /\ last = NoOp
    /\ ops = 0
    /\ saved = <<>>
    /\ writers = <<>>
    /\ rows = <<>>
    /\ built = <<>>
    /\ bracket = <<>>
    /\ NoAuth
    /\ match = NewMatch
    /\ completions = 0

NextMatch ==
    \/ StartMatch
    \/ \E h, a \in MatchScores : CompleteMatch(h, a)
    \/ Cancel
    \/ \E inFuture \in BOOLEAN : Postpone(inFuture)
    \/ \E inFuture \in BOOLEAN : Reschedule(inFuture)
    \/ \E h, a \in MatchScores : UpdateScore(h, a)

SpecMatch == InitMatch /\ [][NextMatch]_vars

\* C21: the match is completed at most once: after a completeMatch call has
\* succeeded, no sequence of method calls makes a second one succeed
C21_CompletedAtMostOnce == completions <= 1

\* the two scores are set and not negative
C22_Scored(m) ==
    /\ m.homeScore # <<>> /\ m.homeScore[1] >= 0
    /\ m.awayScore # <<>> /\ m.awayScore[1] >= 0

\* a call of a method of the match that threw left the match as it was
C22_Rejected == last'.thrown /\ match' = match

\* the scores of the call are not negative
C22_ScoresOk == last'.homeScore >= 0 /\ last'.awayScore >= 0

\* the call stored its scores
C22_Stored ==
    /\ ~last'.thrown
    /\ match'.homeScore = <<last'.homeScore>>
    /\ match'.awayScore = <<last'.awayScore>>

\* C22: startMatch succeeds only on a scheduled match, which it puts in
\* progress; completeMatch only on a match in progress and with two scores
\* that are not negative, which it stores, completing the match; updateScore
\* only on a completed match and with two scores that are not negative,
\* which it stores; every other call of the three throws and leaves status
\* and scores as they were; and a completed match has two scores that are
\* not negative
C22_GuardedTransitions ==
    [][/\ last'.op = "startMatch" =>
            IF match.status = "scheduled"
            THEN /\ ~last'.thrown
                 /\ match' = [match EXCEPT !.status = "in_progress"]
            ELSE C22_Rejected
       /\ last'.op = "completeMatch" =>
            IF match.status = "in_progress" /\ C22_ScoresOk
            THEN C22_Stored /\ match'.status = "completed"
            ELSE C22_Rejected
       /\ last'.op = "updateScore" =>
            IF match.status = "completed" /\ C22_ScoresOk
            THEN C22_Stored /\ match'.status = "completed"
            ELSE C22_Rejected
       /\ match'.status = "completed" => C22_Scored(match')]_vars

\* the match was started and completed, and updateScore then gave the
\* completed match new scores
C22_Witness ==
    /\ last.op = "updateScore" /\ ~last.thrown
    /\ match.status = "completed"
    /\ match.homeScore = <<1>> /\ match.awayScore = <<0>>
    /\ completions = 1

----------------------------------------------------------------------------
(* SpecSeason: a table created empty, fed match results, and then one call
   of removeTeam, with which the run ends; ops counts the match results *)

SeasonOpen == last.op # "removeTeam"

SeasonMatch == SeasonOpen /\ ApplyAnyMatch

SeasonRemove(teamName) ==
    /\ SeasonOpen
    /\ LET r == RemoveTeam(standings, teamName)
       IN  /\ standings' = r.table
           /\ last' = [NoOp EXCEPT !.op = "removeTeam", !.name = teamName,
                                   !.removed = r.removed]
    /\ UNCHANGED <<ops, saved, elsewhere>>

NextSeason ==
    \/ SeasonMatch
    \/ \E teamName \in TeamNames : SeasonRemove(teamName)

SpecSeason == InitEmpty /\ [][NextSeason]_vars

\* the sum of one statistic over the entries of a table
RECURSIVE C23_Sum(_, _)
C23_Sum(table, field) ==
    IF table = <<>> THEN 0
    ELSE table[1][field] + C23_Sum(SubSeq(table, 2, Len(table)), field)

\* the sums of a table that k match results built
C23_Balanced(table, k) ==
    /\ C23_Sum(table, "played") = 2 * k
    /\ C23_Sum(table, "goalsFor") = C23_Sum(table, "goalsAgainst")
    /\ C23_Sum(table, "goalDifference") = 0
    /\ C23_Sum(table, "won") = C23_Sum(table, "lost")
    /\ C23_Sum(table, "drawn") % 2 = 0

\* C23: in a table built from empty by k match results the played counts
\* sum to 2k, goals for and goals against sum to the same (the goal
\* differences to 0), wins and losses sum to the same and the draws sum to
\* an even number; a removeTeam call that removes an entry takes exactly
\* that entry's statistics out of the sums, its opponents' entries staying
\* as they were, so that the sums no longer hold
C23_SumsHoldUntilRemoval ==
    /\ [](SeasonOpen => C23_Balanced(standings, ops))
    /\ [][(last'.op = "removeTeam" /\ last'.removed) =>
            LET e == StatOf(standings, last'.name)
            IN  /\ e.played >= 1
                /\ \A f \in {"played", "won", "drawn", "lost", "goalsFor",
                             "goalsAgainst", "goalDifference"} :
                        C23_Sum(standings', f) = C23_Sum(standings, f) - e[f]
                /\ \A i \in 1..Len(standings') :
                        \E j \in 1..Len(standings) : standings'[i] = standings[j]
                /\ ~C23_Balanced(standings', ops')]_vars

\* two match results were applied and one of the teams was then removed
C23_Witness ==
    /\ last.op = "removeTeam" /\ last.removed
    /\ ops = 2
    /\ Len(standings) >= 2
    /\ C23_Sum(standings, "played") < 2 * ops

\* C24: applying two match results in either order gives the same table:
\* the same entries with the same teamName strings in the same order, also
\* when the results share a team or spell a team in different letter case
C24_ResultsCommute ==
    [][Applied' =>
        \A homeTeam \in TeamNames, awayTeam \in TeamNames, hs \in 0..1, as \in 0..1 :
            ~SameTeam(homeTeam, awayTeam) =>
                ApplyMatchResult(standings', homeTeam, awayTeam, hs, as)
                = ApplyMatchResult(
                    ApplyMatchResult(standings, homeTeam, awayTeam, hs, as),
                    last'.home, last'.away, last'.homeScore, last'.awayScore)]_vars

----------------------------------------------------------------------------
(* The Bracket model: status, round and winner of one bracket *)

\* the largest number of rounds of a bracket
MaxRounds == 4

\* the names completeBracket is given
Winners == { <<97>>, <<98>>, <<90>> }

\* a faulty variant of startBracket that does not look at the status
startBracketAnyStatus(b) ==
    [bracket |-> [b EXCEPT !.status = "in_progress", !.currentRound = 1],
     thrown |-> FALSE]

\* a faulty variant of advanceToNextRound that advances from the final round
advanceToNextRoundUnbounded(b) ==
    IF b.status # "in_progress"
    THEN [bracket |-> b, thrown |-> TRUE]
    ELSE [bracket |-> [b EXCEPT !.currentRound = @ + 1,
                                !.status = IF b.currentRound + 1 >= b.totalRounds
                                           THEN "completed" ELSE @],
          thrown |-> FALSE]

\* Bracket.startBracket
startBracket(b) ==
    IF b.status # "not_started"
    THEN [bracket |-> b, thrown |-> TRUE]
    ELSE [bracket |-> [b EXCEPT !.status = "in_progress", !.currentRound = 1],
          thrown |-> FALSE]

\* Bracket.advanceToNextRound: reaching the final round completes the bracket
advanceToNextRound(b) ==
    IF b.status # "in_progress"
    THEN [bracket |-> b, thrown |-> TRUE]
    ELSE IF b.currentRound >= b.totalRounds
    THEN [bracket |-> b, thrown |-> TRUE]
    ELSE [bracket |-> [b EXCEPT !.currentRound = @ + 1,
                                !.status = IF b.currentRound + 1 >= b.totalRounds
                                           THEN "completed" ELSE @],
          thrown |-> FALSE]

\* Bracket.completeBracket
completeBracket(b, winner) ==
    IF b.status # "in_progress"
    THEN [bracket |-> b, thrown |-> TRUE]
    ELSE [bracket |-> [b EXCEPT !.status = "completed", !.winner = <<winner>>,
                                !.currentRound = b.totalRounds],
          thrown |-> FALSE]

\* the validator validRoundNumbers, with the min: 1 of the two columns
validRoundNumbers(b) ==
    /\ b.currentRound >= 1
    /\ b.totalRounds >= 1
    /\ b.currentRound <= b.totalRounds

\* what the methods of a bracket leave alone
offBracket == <<standings, ops, saved, writers, rows, built, match,
                completions, auth>>

\* one call of a method of the bracket: r is what the method made of it
BracketCall(op, r, winner) ==
    /\ bracket' = r.bracket
    /\ last' = [NoOp EXCEPT !.op = op, !.name = winner, !.thrown = r.thrown]
    /\ UNCHANGED offBracket

StartBracket == BracketCall("startBracket", startBracket(bracket), <<>>)

AdvanceToNextRound ==
    BracketCall("advanceToNextRound", advanceToNextRound(bracket), <<>>)

CompleteBracket(winner) ==
    BracketCall("completeBracket", completeBracket(bracket, winner), winner)

\* Bracket.create: status and winner at their defaults, the rounds as given
\* and as the validators let them pass
InitBracket ==
    /\ standings = <<>>
    /\ last = NoOp
    /\ ops = 0
    /\ saved = <<>>
    /\ writers = <<>>
    /\ rows = <<>>
    /\ built = <<>>
    /\ match = <<>>
    /\ completions = 0
    /\ NoAuth
    /\ \E totalRounds \in 1..MaxRounds, currentRound \in 1..MaxRounds :
        /\ bracket = [status |-> "not_started", currentRound |-> currentRound,
                      totalRounds |-> totalRounds, winner |-> <<>>]
        /\ validRoundNumbers(bracket)

NextBracket ==
    \/ StartBracket
    \/ AdvanceToNextRound
    \/ \E winner \in Winners : CompleteBracket(winner)

SpecBracket == InitBracket /\ [][NextBracket]_vars

\* C25: a completed bracket has a winner, and a bracket that is not
\* completed has none
C25_CompletedHasWinner ==
    /\ bracket.status = "completed" => bracket.winner # <<>>
    /\ bracket.status # "completed" => bracket.winner = <<>>

\* a call of a method of the bracket that threw left the bracket as it was
C26_Rejected == last'.thrown /\ bracket' = bracket

\* C26: currentRound never exceeds totalRounds; advanceToNextRound raises
\* currentRound by exactly 1, and when the bracket is not in progress or is
\* in its final round it throws and leaves the bracket as it was
C26_RoundWithinTotal ==
    [][/\ bracket'.currentRound <= bracket'.totalRounds
       /\ bracket'.totalRounds = bracket.totalRounds
       /\ last'.op = "advanceToNextRound" =>
            IF bracket.status = "in_progress"
               /\ bracket.currentRound < bracket.totalRounds
            THEN /\ ~last'.thrown
                 /\ bracket'.currentRound = bracket.currentRound + 1
            ELSE C26_Rejected]_vars

\* a bracket of three rounds was advanced from round 1 to round 2, and one
\* more call in its final round would be rejected
C26_Witness ==
    /\ last.op = "advanceToNextRound" /\ ~last.thrown
    /\ bracket.totalRounds = 3
    /\ bracket.currentRound = 2
    /\ bracket.status = "in_progress"

\* the place of a status in the order not_started, in_progress, completed
C27_Rank(status) ==
    CASE status = "not_started" -> 0
      [] status = "in_progress" -> 1
      [] status = "completed" -> 2

\* C27: the status only moves forward; startBracket succeeds only on a
\* bracket not started, which it puts in progress in round 1;
\* completeBracket and advanceToNextRound succeed only on a bracket in
\* progress; on a completed bracket every call throws and leaves status,
\* currentRound and winner as they were
C27_StatusMovesForward ==
    [][/\ C27_Rank(bracket'.status) >= C27_Rank(bracket.status)
       /\ last'.op = "startBracket" =>
            IF bracket.status = "not_started"
            THEN /\ ~last'.thrown
                 /\ bracket'.status = "in_progress"
                 /\ bracket'.currentRound = 1
            ELSE last'.thrown /\ bracket' = bracket
       /\ (last'.op \in {"completeBracket", "advanceToNextRound"}
           /\ bracket.status # "in_progress") =>
            last'.thrown /\ bracket' = bracket
       /\ (last'.op = "completeBracket" /\ bracket.status = "in_progress") =>
            ~last'.thrown /\ bracket'.status = "completed"
       /\ bracket.status = "completed" =>
            /\ last'.thrown
            /\ bracket'.status = bracket.status
            /\ bracket'.currentRound = bracket.currentRound
            /\ bracket'.winner = bracket.winner]_vars

\* startBracket was called on a bracket that completeBracket had completed,
\* and threw
C27_Witness ==
    /\ last.op = "startBracket" /\ last.thrown
    /\ bracket.status = "completed"
    /\ bracket.winner = <<(<<97>>)>>
    /\ bracket.currentRound = bracket.totalRounds

----------------------------------------------------------------------------
(* The authentication service: the store of refresh tokens.
   A refresh token is the signature of the payload (userId, email, role,
   type) with iat, the second it was signed in, and exp = iat + 7 days; the
   signature is a function of these, so a token is written <<userId, iat>>
   and two tokens signed for one user in one second are the same string.
   The clock runs over MaxTime seconds, which no token's seven days end in. *)

\* the last second of the clock
MaxTime == 1

\* the number of steps the calls of the service take in a run
MaxCalls == 6

UserIds == {1, 2}

\* the callers that may have a refreshToken call in flight
Callers == {1, 2}

\* no call of the caller is in flight and none has returned new tokens;
\* in the record of a call, ok tells that it returned new tokens and rival
\* that another call for the same token was waiting for the user when this
\* one verified the token
IdleCall == [pc |-> "idle", token |-> <<>>, ok |-> FALSE, rival |-> FALSE]

\* jwt.sign of a user's refresh payload at a time
SignRefresh(userId, time) == <<userId, time>>

\* the payload userId of a token
UserOf(token) == token[1]

\* AuthService.generateTokens: the token is signed and stored
generateTokens(store, userId, time) ==
    [store |-> store \cup {SignRefresh(userId, time)},
     refreshToken |-> SignRefresh(userId, time)]

\* AuthService.verifyRefreshToken, for a token signed by this service
verifyRefreshToken(store, token) ==
    IF token \notin store
    THEN [thrown |-> TRUE, error |-> "Refresh token revoked"]
    ELSE [thrown |-> FALSE, error |-> ""]

\* AuthService.revokeRefreshToken
revokeRefreshToken(store, token) == store \ {token}

\* AuthService.revokeAllUserRefreshTokens: the whole store is cleared,
\* whatever the userId
revokeAllUserRefreshTokens(store, userId) == {}

\* what the authentication service leaves alone
offAuth == <<standings, saved, writers, rows, built, match, completions,
             bracket>>

\* one more step of a call of the service has run; ops counts them
Called ==
    /\ ops < MaxCalls
    /\ ops' = ops + 1

\* the clock moves on by one second
Tick ==
    /\ now < MaxTime
    /\ now' = now + 1
    /\ last' = [NoOp EXCEPT !.op = "tick"]
    /\ UNCHANGED <<refreshTokens, active, calls, issued, spent, ops, offAuth>>

\* AuthService.login: an active user with the right password gets tokens
Login(userId, passwordOk) ==
    /\ Called
    /\ IF userId \in active /\ passwordOk
       THEN LET g == generateTokens(refreshTokens, userId, now)
            IN  /\ refreshTokens' = g.store
                /\ issued' = issued \cup {g.refreshToken}
                /\ last' = [NoOp EXCEPT !.op = "login", !.user = userId]
       ELSE /\ UNCHANGED <<refreshTokens, issued>>
            /\ last' = [NoOp EXCEPT !.op = "login", !.user = userId,
                                    !.thrown = TRUE,
                                    !.error = "Invalid email or password"]
    /\ UNCHANGED <<now, active, calls, spent, offAuth>>

\* AuthService.logout
Logout(token) ==
    /\ Called
    /\ token \in issued
    /\ refreshTokens' = revokeRefreshToken(refreshTokens, token)
    /\ spent' = spent \cup {token}
    /\ last' = [NoOp EXCEPT !.op = "logout", !.user = UserOf(token)]
    /\ UNCHANGED <<now, active, calls, issued, offAuth>>

\* AuthService.verifyRefreshToken called with a token the service issued
VerifyRefreshToken(token) ==
    /\ Called
    /\ token \in issued
    /\ LET v == verifyRefreshToken(refreshTokens, token)
       IN  last' = [NoOp EXCEPT !.op = "verifyRefreshToken",
                                !.user = UserOf(token),
                                !.thrown = v.thrown, !.error = v.error]
    /\ UNCHANGED <<auth, offAuth>>

\* AuthService.refreshToken up to its await: the token is verified and the
\* user is asked for
RefreshVerify(c, token) ==
    /\ Called
    /\ calls[c].pc # "awaiting"
    /\ token \in issued
    /\ LET v == verifyRefreshToken(refreshTokens, token)
       IN  /\ calls' = [calls EXCEPT ![c] =
                IF v.thrown
                THEN IdleCall
                ELSE [pc |-> "awaiting", token |-> token, ok |-> FALSE,
                      rival |-> \E d \in Callers \ {c} :
                                    /\ calls[d].pc = "awaiting"
                                    /\ calls[d].token = token]]
           /\ last' = [NoOp EXCEPT !.op = "refreshToken",
                                   !.user = UserOf(token),
                                   !.thrown = v.thrown, !.error = v.error]
    /\ UNCHANGED <<refreshTokens, now, active, issued, spent, offAuth>>

\* AuthService.refreshToken after its await: the old token is revoked, and
\* for an active user new tokens are generated
RefreshResume(c) ==
    /\ Called
    /\ calls[c].pc = "awaiting"
    /\ LET token == calls[c].token
           revoked == revokeRefreshToken(refreshTokens, token)
       IN  /\ spent' = spent \cup {token}
           /\ IF UserOf(token) \notin active
              THEN /\ refreshTokens' = revoked
                   /\ UNCHANGED issued
                   /\ calls' = [calls EXCEPT ![c] = IdleCall]
                   /\ last' = [NoOp EXCEPT !.op = "refreshToken",
                                           !.user = UserOf(token),
                                           !.thrown = TRUE,
                                           !.error = "User not found or inactive"]
              ELSE LET g == generateTokens(revoked, UserOf(token), now)
                   IN  /\ refreshTokens' = g.store
                       /\ issued' = issued \cup {g.refreshToken}
                       /\ calls' = [calls EXCEPT ![c].pc = "done", ![c].ok = TRUE]
                       /\ last' = [NoOp EXCEPT !.op = "refreshToken",
                                               !.user = UserOf(token)]
    /\ UNCHANGED <<now, active, offAuth>>

\* AuthService.revokeAllUserRefreshTokens
RevokeAllUserRefreshTokens(userId) ==
    /\ Called
    /\ refreshTokens' = revokeAllUserRefreshTokens(refreshTokens, userId)
    /\ last' = [NoOp EXCEPT !.op = "revokeAllUserRefreshTokens", !.user = userId]
    /\ UNCHANGED <<now, active, calls, issued, spent, offAuth>>

\* AuthService.changePassword: accepted tells that the current password
\* was right and the new one strong enough and different
ChangePassword(userId, accepted) ==
    /\ Called
    /\ IF accepted
       THEN /\ refreshTokens' = revokeAllUserRefreshTokens(refreshTokens, userId)
            /\ last' = [NoOp EXCEPT !.op = "changePassword", !.user = userId]
       ELSE /\ UNCHANGED refreshTokens
            /\ last' = [NoOp EXCEPT !.op = "changePassword", !.user = userId,
                                    !.thrown = TRUE]
    /\ UNCHANGED <<now, active, calls, issued, spent, offAuth>>

\* UserService.deactivateUser
DeactivateUser(userId) ==
    /\ Called
    /\ active' = active \ {userId}
    /\ last' = [NoOp EXCEPT !.op = "deactivateUser", !.user = userId]
    /\ UNCHANGED <<refreshTokens, now, calls, issued, spent, offAuth>>

\* UserService.activateUser
ActivateUser(userId) ==
    /\ Called
    /\ active' = active \cup {userId}
    /\ last' = [NoOp EXCEPT !.op = "activateUser", !.user = userId]
    /\ UNCHANGED <<refreshTokens, now, calls, issued, spent, offAuth>>

\* a service just constructed, the users as seeded
InitAuth ==
    /\ standings = <<>>
    /\ last = NoOp
    /\ ops = 0
    /\ saved = <<>>
    /\ writers = <<>>
    /\ rows = <<>>
    /\ built = <<>>
    /\ match = <<>>
    /\ completions = 0
    /\ bracket = <<>>
    /\ refreshTokens = {}
    /\ now = 0
    /\ active = UserIds
    /\ calls = [c \in Callers |-> IdleCall]
    /\ issued = {}
    /\ spent = {}

NextAuth ==
    \/ Tick
    \/ \E userId \in UserIds, passwordOk \in BOOLEAN : Login(userId, passwordOk)
    \/ \E token \in issued : Logout(token)
    \/ \E token \in issued : VerifyRefreshToken(token)
    \/ \E c \in Callers, token \in issued : RefreshVerify(c, token)
    \/ \E c \in Callers : RefreshResume(c)
    \/ \E userId \in UserIds : RevokeAllUserRefreshTokens(userId)
    \/ \E userId \in UserIds, accepted \in BOOLEAN : ChangePassword(userId, accepted)
    \/ \E userId \in UserIds : DeactivateUser(userId)
    \/ \E userId \in UserIds : ActivateUser(userId)

SpecAuth == InitAuth /\ [][NextAuth]_vars

\* C28: a refresh token is accepted only while it is stored, and a token
\* that a successful refreshToken, a logout or a refreshToken failing for a
\* missing or inactive user has used up is refused ever after with
\* 'Refresh token revoked', by verifyRefreshToken and so by refreshToken
C28_SpentTokenStaysRevoked ==
    \A token \in spent :
        verifyRefreshToken(refreshTokens, token)
            = [thrown |-> TRUE, error |-> "Refresh token revoked"]

\* C29: of two refreshToken calls for one token that are both past the
\* verification before either has revoked the token, at most one returns
\* new tokens
C29_OneRotationPerToken ==
    \A c \in Callers, d \in Callers :
        (/\ c # d
         /\ calls[c].pc = "done" /\ calls[d].pc = "done"
         /\ calls[c].token = calls[d].token
         /\ calls[d].rival)
            => ~(calls[c].ok /\ calls[d].ok)

\* C30: revokeAllUserRefreshTokens, and with it a successful changePassword,
\* takes the tokens of that user out of the store and leaves the tokens of
\* the other users in it
C30_OnlyThatUsersTokensRevoked ==
    [][(/\ last'.op \in {"revokeAllUserRefreshTokens", "changePassword"}
        /\ ~last'.thrown)
            => refreshTokens' = {t \in refreshTokens : UserOf(t) # last'.user}]_vars

============================================================================
